---- MODULE Spec2Model ----
(***************************************************************************)
(* Model of the AI-NEWS feed ingestion and deduplication pipeline:         *)
(*   src/news.py  NewsFetcher (fetch, _canonicalize_url, _title_key, ...)  *)
(*   src/bot.py   main loop, load/save of the dedup store                  *)
(*                                                                         *)
(* A URL string is represented by its urlparse() components:               *)
(*   host  the netloc, a string                                            *)
(*   path  the path as a sequence of tokens, "/" or a segment name         *)
(*   query the query as a sequence of [k, v] pairs, v = "" a blank value   *)
(*   frag  the fragment, a string                                          *)
(* The empty URL (Python None or "") is NoUrl.                             *)
(*                                                                         *)
(* Each part of the program is a state machine of its own, run by its own  *)
(* specification while the others stay idle:                               *)
(*   SpecCanon       _canonicalize_url                                     *)
(*   SpecFetch       NewsFetcher.fetch on aggregator and publisher entries *)
(*   SpecFetchPlain  NewsFetcher.fetch on plain entries, small max_items   *)
(*   SpecExtract     _extract_external_from_gnews                          *)
(*   SpecTitle       _title_key of news.py and title_key of bot.py         *)
(*   SpecStore       load and save of the dedup store files                *)
(*   SpecBot         the polling loop of main() with the dedup store       *)
(*   SpecRotate      the rotation of the feed categories in main()         *)
(*   SpecMeta        the nested calls of _get_article_meta                 *)
(*   SpecMedia       the media and the primary image of one article, from  *)
(*                   the feed item to the call of send_to_telegram         *)
(***************************************************************************)
EXTENDS Integers, Sequences, FiniteSets, TLC

VARIABLES
    \* ---- _canonicalize_url exercised on its own
    cPhase,      \* "in" | "once" | "twice" | "pair"
    cUrl,        \* the input URL
    cOut,        \* _canonicalize_url(cUrl)
    cOut2,       \* _canonicalize_url(cOut)
    cVar,        \* a URL that differs from cUrl by one normalised feature
    cVarOut,     \* _canonicalize_url(cVar)
    \* ---- one call of NewsFetcher.fetch
    fPc,         \* "idle" | "start" | "feed" | "items" | "done" | "raised"
    fNumFeeds,   \* len(self.feed_urls)
    fMaxItems,   \* the max_items argument
    fProfile,    \* which feed documents the call meets: "mixed" | "plain"
    fFeed,       \* position in feed_list (1-based)
    fScript,     \* per feed: the statuses its server gives to successive GETs
    fAttempts,   \* per feed: the number of GETs made
    fLeft,       \* entries of the current feed not yet iterated
    fBudget,     \* entries the feeds of this cycle may still hold (bound)
    fCount,      \* count
    fResults,    \* results
    fLog,        \* history: what each iteration of the item loop did
                 \* (kept for the calls on plain feed documents)
    fSeenLinks,  \* seen_links
    fSeenTitles, \* seen_titles
    \* ---- main() of bot.py and the dedup store
    bPc,            \* "idle" | "cycle" | "loop" | "break"
    bRecentMax,     \* recent_titles_max
    bMaxPosts,      \* max_posts_per_cycle
    bPublished,     \* published_links
    bRecent,        \* recent_title_keys
    bRecentSet,     \* recent_title_keys_set
    bFilePublished, \* the content of data/published.json
    bFileTitles,    \* the content of data/recent_titles.json
    bCycles,        \* polling cycles started (bound)
    bLeft,          \* items of the cycle not yet iterated
    bCycleKeys,     \* title keys of the items of the cycle so far
    bNewCount,      \* new_count
    bEvent,         \* history: what the last step did
    bLastLink,      \* history: the link the last step handed to send_to_telegram
    bDelivered,     \* history: links whose delivery succeeded
    bResent,        \* history: links handed to send_to_telegram after that
    bItemKeys,      \* history: the title keys of the item of the last step
    bRecorded,      \* history: the keys save_recent_titles has persisted
    bUnsaved,       \* history: keys appended since, not persisted so far
    bCycleSent,     \* history: deliveries of the current polling cycle
    \* ---- the two title key functions exercised on their own
    tPhase,      \* "in" | "keyed" | "pair"
    tTitle,      \* a title string
    tKeyFetch,   \* NewsFetcher._title_key(tTitle)
    tKeyBot,     \* title_key(tTitle) of bot.py
    tOther,      \* a title with the same words as tTitle
    tOtherFetch, \* NewsFetcher._title_key(tOther)
    tOtherBot,   \* title_key(tOther) of bot.py
    \* ---- the load and save functions of the dedup store on their own
    sPhase,      \* "start" | "loaded" | "saved" | "stopped" | "reloaded"
                 \* | "recovered"
    sFilePub,    \* the content of data/published.json
    sFileTitles, \* the content of data/recent_titles.json
    sSet,        \* the set given to save_published
    sKeys,       \* the list given to save_recent_titles
    sMax,        \* the max_size given to save_recent_titles
    sPub,        \* what load_published returned last
    sTitles,     \* what load_recent_titles returned last
    sPrevPub,    \* what load_published returned before the write
    sPrevTitles, \* what load_recent_titles returned before the write
    sWritten,    \* the list save_recent_titles handed to json.dumps
    \* ---- _extract_external_from_gnews exercised on its own
    xPhase,      \* "in" | "out"
    xPage,       \* the page of the redirector
    xBase,       \* the URL the page was served from
    xOut,        \* what _extract_external_from_gnews gave
    \* ---- the media of one item of NewsFetcher.fetch
    mPhase,      \* "in" | "out" | "posted"
    mTag,        \* url of the item's media:content or media:thumbnail tag
    mEnclosure,  \* the item's enclosure tag: [type, url]
    mPage,       \* the article page: what its tags declare, or NoPage
    mFallback,   \* self.fallback_image_url
    mFeed,       \* feed_media and feed_image of the item
    mMeta,       \* what _get_article_meta returned
    mMedia,      \* the "media" of the article appended to results
    mImage,      \* the "image_url" of the article appended to results
    mAllMedia,   \* the all_media argument main() gave to send_to_telegram
    \* ---- the category rotation of main()
    rPhase,      \* "run"
    rCategories, \* the keys of feed_categories
    rLast,       \* last_category
    rFile,       \* the content of data/last_category.json
    rProcessed,  \* history: current_category of each polling cycle
    rEnded,      \* history: how each polling cycle ended, "ok" | "error"
    \* ---- one call of _get_article_meta and the calls nested in it
    aPc,         \* "call" | "returned" | "raised"
    aWeb,        \* what a GET of each URL gives
    aUrl,        \* page_url of the innermost call
    aDepth,      \* the number of nested calls
    aFetches,    \* history: the GETs made
    aResult      \* what the outermost call gave: "none" | "meta" | "raise"

canonVars == <<cPhase, cUrl, cOut, cOut2, cVar, cVarOut>>

fetchVars == <<fPc, fNumFeeds, fMaxItems, fProfile, fFeed, fScript,
               fAttempts, fLeft, fBudget, fCount, fResults, fLog, fSeenLinks,
               fSeenTitles>>

botVars == <<bPc, bRecentMax, bMaxPosts, bPublished, bRecent, bRecentSet,
             bFilePublished, bFileTitles, bCycles, bLeft, bCycleKeys,
             bNewCount, bEvent, bLastLink, bDelivered, bResent, bItemKeys,
             bRecorded, bUnsaved, bCycleSent>>

titleVars == <<tPhase, tTitle, tKeyFetch, tKeyBot, tOther, tOtherFetch,
               tOtherBot>>

storeVars == <<sPhase, sFilePub, sFileTitles, sSet, sKeys, sMax, sPub,
               sTitles, sPrevPub, sPrevTitles, sWritten>>

extractVars == <<xPhase, xPage, xBase, xOut>>

mediaVars == <<mPhase, mTag, mEnclosure, mPage, mFallback, mFeed, mMeta,
               mMedia, mImage, mAllMedia>>

rotateVars == <<rPhase, rCategories, rLast, rFile, rProcessed, rEnded>>

metaVars == <<aPc, aWeb, aUrl, aDepth, aFetches, aResult>>

vars == <<canonVars, fetchVars, botVars, titleVars, storeVars, extractVars,
          mediaVars, rotateVars, metaVars>>

\* what an action of one component leaves alone
notCanonVars == <<fetchVars, botVars, titleVars, storeVars, extractVars,
                  mediaVars, rotateVars,
                  metaVars>>
notFetchVars == <<canonVars, botVars, titleVars, storeVars, extractVars,
                  mediaVars, rotateVars,
                  metaVars>>
notBotVars == <<canonVars, fetchVars, titleVars, storeVars, extractVars,
                  mediaVars, rotateVars,
                  metaVars>>
notTitleVars == <<canonVars, fetchVars, botVars, storeVars, extractVars,
                  mediaVars, rotateVars,
                  metaVars>>
notStoreVars == <<canonVars, fetchVars, botVars, titleVars, extractVars,
                  mediaVars, rotateVars,
                  metaVars>>
notExtractVars == <<canonVars, fetchVars, botVars, titleVars, storeVars,
                  mediaVars, rotateVars,
                  metaVars>>
notMediaVars == <<canonVars, fetchVars, botVars, titleVars, storeVars,
                  extractVars, rotateVars, metaVars>>
notRotateVars == <<canonVars, fetchVars, botVars, titleVars, storeVars,
                   extractVars, mediaVars, metaVars>>
notMetaVars == <<canonVars, fetchVars, botVars, titleVars, storeVars,
                 extractVars, mediaVars, rotateVars>>

-----------------------------------------------------------------------------
(* Bounds *)

MaxPathLen == 5      \* tokens in an input path of the canonicaliser
MaxFeeds == 2        \* configured feeds of one fetch call
MaxEntries == 2      \* entries in one feed document
MaxCycleEntries == 3 \* entries in all feed documents of one fetch call
MaxPlainEntries == 4 \* entries in the plain feed documents of one fetch call
MaxRecent == 2       \* largest configured recent_titles_max
MaxPostsPerCycle == 2 \* largest configured max_posts_per_cycle
MaxCycles == 2       \* polling cycles of one run of the model
MaxCycleItems == 2    \* items fetch returns in one cycle
MaxTitleLen == 3      \* characters of a title given to the key functions
MaxStoreKeys == 3     \* keys in a list given to save_recent_titles
MaxAnchors == 2       \* anchors of a redirector page
MaxPageMedia == 2     \* media the tags of an article page declare
MaxRotations == 3     \* polling cycles of one run of the rotation
RecursionLimit == 3   \* nested calls the interpreter allows (its recursion
                      \* limit, scaled down)

-----------------------------------------------------------------------------
(* Strings of the URL universe *)

NoUrl == [host |-> "", path |-> <<>>, query |-> <<>>, frag |-> ""]

\* str.lower() on the hosts of the universe
Lower(h) ==
    CASE h = "Example.com"     -> "example.com"
      [] h = "News.Google.com" -> "news.google.com"
      [] OTHER                 -> h

\* netloc.endswith("news.google.com"): case sensitive, as str.endswith is
EndsWithGNews(h) == h \in {"news.google.com", "www.news.google.com"}

\* "news.google.com" in netloc (line 161) and "news.google" in netloc
\* (line 146): case sensitive substring tests
ContainsGNews(h) == h \in {"news.google.com", "www.news.google.com"}

\* urlparse() raises ValueError("Invalid IPv6 URL") on an unbalanced bracket
BadHost == "[bad"
UrlParseRaises(u) == u.host = BadHost

\* the tracking parameters removed by _canonicalize_url (those of the universe)
Blocked == {"utm_source", "ref", "fbclid"}

-----------------------------------------------------------------------------
(* Sequence helpers *)

RECURSIVE SelectPairs(_, _)
\* parse_qs(query, keep_blank_values=False) as the ordered list of
\* (key, first value): blank values are dropped, the dict keeps the order of
\* first insertion, and urlencode writes v[0] of every key
SelectPairs(q, seen) ==
    IF q = <<>> THEN <<>>
    ELSE LET p == Head(q) IN
         IF p.v = "" \/ p.k \in seen
            THEN SelectPairs(Tail(q), seen)
            ELSE <<p>> \o SelectPairs(Tail(q), seen \cup {p.k})

ParseQsFirst(q) == SelectPairs(q, {})

DropBlocked(q) == SelectSeq(q, LAMBDA p : p.k \notin Blocked)

\* path.endswith("/amp")
EndsWithAmp(p) ==
    Len(p) >= 2 /\ p[Len(p) - 1] = "/" /\ p[Len(p)] = "amp"

RECURSIVE ReplaceAmp(_)
\* path.replace("/amp/", "/"): left to right, non-overlapping
ReplaceAmp(p) ==
    IF Len(p) < 3 THEN p
    ELSE IF p[1] = "/" /\ p[2] = "amp" /\ p[3] = "/"
            THEN <<"/">> \o ReplaceAmp(SubSeq(p, 4, Len(p)))
            ELSE <<p[1]>> \o ReplaceAmp(Tail(p))

RECURSIVE RStripSlash(_)
\* path.rstrip("/")
RStripSlash(p) ==
    IF p # <<>> /\ p[Len(p)] = "/" THEN RStripSlash(SubSeq(p, 1, Len(p) - 1))
    ELSE p

\* "/amp/" in path
HasAmpSegment(p) ==
    \E i \in 1..(Len(p) - 2) : p[i] = "/" /\ p[i + 1] = "amp" /\ p[i + 2] = "/"

\* lines 445-449: the AMP rewriting of the path
StripAmp(p) ==
    LET p1 == IF EndsWithAmp(p) THEN SubSeq(p, 1, Len(p) - 2) ELSE p
    IN  IF HasAmpSegment(p1) THEN ReplaceAmp(p1) ELSE p1

\* lines 453-455: drop trailing slash (except root)
DropTrailingSlash(p) ==
    IF p # <<>> /\ p[Len(p)] = "/" /\ Len(p) > 1 THEN RStripSlash(p) ELSE p

\* NewsFetcher._canonicalize_url
Canonicalize(u) ==
    IF UrlParseRaises(u) THEN u
    ELSE [host  |-> Lower(u.host),
          path  |-> DropTrailingSlash(StripAmp(u.path)),
          query |-> DropBlocked(ParseQsFirst(u.query)),
          frag  |-> ""]

-----------------------------------------------------------------------------
(* The canonicaliser on its own: inputs drawn from a bounded URL universe *)

PathTok == {"/", "a", "amp"}

\* paths as urlparse gives them for a URL with a netloc: empty, or starting
\* with "/", segments separated by "/" (an empty segment is "//")
IsPath(p) ==
    /\ p # <<>> => p[1] = "/"
    /\ \A i \in 1..(Len(p) - 1) : p[i] = "/" \/ p[i + 1] = "/"

BoundedSeqs(S, n) == UNION {[1..k -> S] : k \in 0..n}

Paths == {p \in BoundedSeqs(PathTok, MaxPathLen) : IsPath(p)}

Queries ==
    { <<>>,
      <<[k |-> "id", v |-> "1"]>>,
      <<[k |-> "utm_source", v |-> "x"]>>,
      <<[k |-> "id", v |-> "1"], [k |-> "id", v |-> "2"]>>,
      <<[k |-> "id", v |-> ""], [k |-> "ref", v |-> "x"]>> }

CanonInputs ==
    [host : {"example.com", "Example.com"}, path : Paths,
     query : Queries, frag : {"", "top"}]

\* insert x into sequence s so that it becomes element i
InsertAt(s, i, x) == SubSeq(s, 1, i - 1) \o x \o SubSeq(s, i, Len(s))

\* the URLs that differ from u only by one feature the canonicaliser is meant
\* to normalise away
HostCaseVariants(u) ==
    {[u EXCEPT !.host = h] : h \in {g \in {"example.com", "Example.com"} :
                                        Lower(g) = Lower(u.host)}}
\* a slash appended after the last segment (the root path is left alone by
\* line 454 and is not a case of the rule)
TrailingSlashVariants(u) ==
    IF u.path # <<>> /\ u.path[Len(u.path)] # "/"
        THEN {[u EXCEPT !.path = u.path \o <<"/">>]}
        ELSE {}
TrackingVariants(u) ==
    {[u EXCEPT !.query = InsertAt(u.query, i, <<[k |-> b, v |-> "x"]>>)] :
        i \in 1..(Len(u.query) + 1), b \in Blocked}
AmpVariants(u) ==
    {[u EXCEPT !.path = InsertAt(u.path, i, <<"/", "amp">>)] :
        i \in {j \in 1..(Len(u.path) + 1) :
                 j = Len(u.path) + 1 \/ u.path[j] = "/"}}

Variants(u) ==
    HostCaseVariants(u) \cup TrailingSlashVariants(u)
        \cup TrackingVariants(u) \cup AmpVariants(u)

CanonInit ==
    /\ cPhase = "in"
    /\ cUrl \in CanonInputs
    /\ cOut = NoUrl /\ cOut2 = NoUrl /\ cVar = NoUrl /\ cVarOut = NoUrl

CanonIdle ==
    /\ cPhase = "idle"
    /\ cUrl = NoUrl
    /\ cOut = NoUrl /\ cOut2 = NoUrl /\ cVar = NoUrl /\ cVarOut = NoUrl

CanonApply ==
    /\ cPhase = "in"
    /\ cOut' = Canonicalize(cUrl)
    /\ cPhase' = "once"
    /\ UNCHANGED <<cUrl, cOut2, cVar, cVarOut, notCanonVars>>

CanonAgain ==
    /\ cPhase = "once"
    /\ cOut2' = Canonicalize(cOut)
    /\ cPhase' = "twice"
    /\ UNCHANGED <<cUrl, cOut, cVar, cVarOut, notCanonVars>>

CanonVariant ==
    /\ cPhase = "once"
    /\ \E v \in Variants(cUrl) :
          /\ cVar' = v
          /\ cVarOut' = Canonicalize(v)
    /\ cPhase' = "pair"
    /\ UNCHANGED <<cUrl, cOut, cOut2, notCanonVars>>

CanonNext == CanonApply \/ CanonAgain \/ CanonVariant

-----------------------------------------------------------------------------
(* Titles: a title is a sequence of characters *)

LowerCh(c) ==
    CASE c = "A" -> "a"
      [] c = "I" -> "i"
      [] OTHER   -> c

IsAlnum(c) == c \in {"a", "i", "m", "A", "I"}
IsSpace(c) == c \in {" ", "\t"}

LowerStr(s) == [i \in 1..Len(s) |-> LowerCh(s[i])]

RECURSIVE LStrip(_)
LStrip(s) == IF s # <<>> /\ IsSpace(Head(s)) THEN LStrip(Tail(s)) ELSE s

RECURSIVE RStrip(_)
RStrip(s) ==
    IF s # <<>> /\ IsSpace(s[Len(s)]) THEN RStrip(SubSeq(s, 1, Len(s) - 1))
    ELSE s

RECURSIVE SplitJoin(_)
\* " ".join(s.split()): runs of whitespace become one space, none at the ends
SplitJoin(s) ==
    IF s = <<>> THEN <<>>
    ELSE IF IsSpace(Head(s))
         THEN LET rest == LStrip(s) IN
              IF rest = <<>> THEN <<>> ELSE <<" ">> \o SplitJoin(rest)
         ELSE <<Head(s)>> \o SplitJoin(Tail(s))

\* NewsFetcher._title_key
TitleKey(title) ==
    LET s == RStrip(LStrip(LowerStr(title)))
        reduced == SelectSeq(s, LAMBDA ch : IsAlnum(ch) \/ IsSpace(ch))
    IN  SplitJoin(LStrip(reduced))

-----------------------------------------------------------------------------
(* The URLs, feed entries and pages the pipeline is run on *)

Url(h, p) == [host |-> h, path |-> p, query |-> <<>>, frag |-> ""]

UA   == Url("example.com", <<"/", "a">>)
UA2  == [host |-> "Example.com", path |-> <<"/", "a", "/">>,
         query |-> <<[k |-> "utm_source", v |-> "x"]>>, frag |-> "top"]
UAmp == Url("example.com", <<"/", "a", "/", "amp", "/", "amp">>)
UB   == Url("pub.org", <<"/", "b">>)
UC   == Url("pub.org", <<"/", "c">>)
UG   == Url("news.google.com", <<"/", "r">>)
UGc  == Url("News.Google.com", <<"/", "r">>)
UBad == Url(BadHost, <<"/", "a">>)

TitleAI  == <<"A", "I", "!">>
TitleAi  == <<" ", "a", "i">>
TitleM   == <<"m">>
TitleMM  == <<"m", " ", " ", "m">>

Entry(t, l, d) == [hasTitle |-> TRUE, title |-> t, link |-> l, desc |-> d]

\* a feed entry: its <title> tag (hasTitle) and text, its link, and the
\* anchors of its description in document order
Entries ==
    { Entry(TitleAI, UA, <<>>),
      Entry(TitleM, UA2, <<>>),
      Entry(TitleAi, UB, <<>>),
      Entry(TitleMM, UB, <<>>),
      Entry(TitleMM, UC, <<>>),
      Entry(TitleM, UAmp, <<>>),
      Entry(TitleM, UG, <<>>),
      Entry(TitleM, UGc, <<>>),
      Entry(TitleM, UG, <<UGc>>),
      Entry(TitleM, UG, <<UG, UB>>),
      Entry(TitleM, UBad, <<>>),
      Entry(TitleM, UA, <<UBad>>),
      Entry(TitleM, NoUrl, <<>>),
      [hasTitle |-> FALSE, title |-> <<>>, link |-> UA, desc |-> <<>>] }

UD == Url("pub.org", <<"/", "d">>)
UE == Url("pub.org", <<"/", "e">>)

\* entries with publisher links and no description anchors; one has a
\* <title> holding white space only, one has no link
PlainEntries ==
    { Entry(<<"a">>, UA, <<>>),
      Entry(<<"A", "!">>, UC, <<>>),
      Entry(<<"i">>, UC, <<>>),
      Entry(<<"m">>, UD, <<>>),
      Entry(<<" ">>, UE, <<>>),
      Entry(<<"m">>, NoUrl, <<>>) }

EntriesOf(profile) == IF profile = "plain" THEN PlainEntries ELSE Entries

(* The page the redirector serves, as _extract_external_from_gnews sees it: *)
(*   refresh  the <meta http-equiv="refresh"> content: form "none" (no such *)
(*            tag, or no url part), "lower" (...;url=U) or "upper"          *)
(*            (...;URL=U), and U                                            *)
(*   amp      the href of <link rel="amphtml">, NoUrl if there is none      *)
(*   anchors  the <a href> of the page in document order, each with its     *)
(*            form: "rel_wrapper" (/url?q=U), "abs_wrapper"                 *)
(*            (https://www.google.com/url?q=U), "plain" (U itself) or       *)
(*            "relative" (a path on the host of the page); U = NoUrl in a   *)
(*            wrapper says that it has no url or q parameter                *)
Refresh(f, u) == [form |-> f, url |-> u]
NoRefresh == Refresh("none", NoUrl)
Anchor(f, u) == [form |-> f, url |-> u]
GPage(rf, amp, anchors) == [refresh |-> rf, amp |-> amp, anchors |-> anchors]

\* the href of an "abs_wrapper" anchor, a URL on www.google.com
WrapperHref ==
    [host |-> "www.google.com", path |-> <<"/", "url">>,
     query |-> <<[k |-> "q", v |-> "x"]>>, frag |-> ""]

\* what the GET of _resolve_original_url meets: an exception, or a response
\* with its final URL and its page, here a page with at most one anchor
Resolution(x, f, c) ==
    [exc |-> x, final |-> f,
     page |-> GPage(NoRefresh, NoUrl,
                    IF c = NoUrl THEN <<>> ELSE <<Anchor("plain", c)>>)]
NoResolution == Resolution(TRUE, NoUrl, NoUrl)
Resolutions ==
    { NoResolution,
      Resolution(FALSE, UA2, NoUrl),
      Resolution(FALSE, UGc, NoUrl),
      Resolution(FALSE, UG, NoUrl),
      Resolution(FALSE, UG, UB),
      Resolution(FALSE, UG, UGc) }

\* what the GET of _get_article_meta meets: a failure, a page whose parsing
\* raises, or a page with its <link rel=canonical> href (NoUrl if none)
Page(s, c) == [status |-> s, canonical |-> c]
Pages ==
    { Page("fail", NoUrl),
      Page("parse_error", NoUrl),
      Page("ok", NoUrl),
      Page("ok", UC),
      Page("ok", UGc),
      Page("ok", UBad) }

PagesOf(profile) ==
    IF profile = "plain" THEN {Page("fail", NoUrl)} ELSE Pages

\* the number of entries one feed document, and all of them, may hold
FeedEntriesOf(profile) ==
    IF profile = "plain" THEN MaxPlainEntries ELSE MaxEntries
CycleEntriesOf(profile) ==
    IF profile = "plain" THEN MaxPlainEntries ELSE MaxCycleEntries

\* the max_items arguments fetch is called with
MaxItemsOf(profile) == IF profile = "plain" THEN {1, 4} ELSE {20}

\* the statuses a feed server gives to successive GETs
Scripts == { <<200>>, <<503, 200>>, <<503, 503>> }

-----------------------------------------------------------------------------
(* NewsFetcher.fetch *)

\* h.startswith("http"): every non-empty URL of the universe is absolute
StartsWithHttp(u) == u # NoUrl

\* resp.raise_for_status()
RaiseForStatus(status) == status >= 400

\* line 105
Max(a, b) == IF a >= b THEN a ELSE b
PerFeedLimit(maxItems, nFeeds) == Max(3, maxItems \div Max(1, nFeeds))

\* the item loop without the test of lines 125-126
LimitReachedMutNever(count, limit) == FALSE

\* line 125: count >= per_feed_limit
LimitReached(count, limit) == count >= limit

\* str.strip()
Strip(s) == RStrip(LStrip(s))

\* the item loop without the test of lines 175-176
TitleSeenMutNever(tk, seenT) == FALSE

\* line 175: t_key in seen_titles
TitleSeen(tk, seenT) == tk \in seenT

RECURSIVE OrigFromDesc(_)
\* lines 144-148: the first description anchor off the aggregator
OrigFromDesc(anchors) ==
    IF anchors = <<>> THEN [raised |-> FALSE, url |-> NoUrl]
    ELSE LET h == Head(anchors) IN
         IF ~StartsWithHttp(h) THEN OrigFromDesc(Tail(anchors))
         ELSE IF UrlParseRaises(h) THEN [raised |-> TRUE, url |-> NoUrl]
         ELSE IF ~ContainsGNews(h.host) THEN [raised |-> FALSE, url |-> h]
         ELSE OrigFromDesc(Tail(anchors))

Found(u) == [raised |-> FALSE, url |-> u]
Raised == [raised |-> TRUE, url |-> NoUrl]

\* lines 261, 266, 278: u.startswith("http") and not
\* urlparse(u).netloc.endswith("news.google.com"), for a URL that parses
External(u) == StartsWithHttp(u) /\ ~EndsWithGNews(u.host)

\* lines 270-277: the candidate of a wrapper anchor, NoUrl if the anchor
\* gives none (the exception of a candidate that does not parse is passed)
WrapperCandidate(a) ==
    IF a.form \in {"rel_wrapper", "abs_wrapper"}
       /\ a.url # NoUrl /\ ~UrlParseRaises(a.url)
       /\ a.url.host # "" /\ ~EndsWithGNews(a.url.host)
       THEN a.url ELSE NoUrl

\* the href of an anchor as a URL, and joined to the base (line 280)
Href(a, base) ==
    CASE a.form = "abs_wrapper" -> WrapperHref
      [] a.form = "plain" -> a.url
      [] OTHER -> [host |-> base.host, path |-> <<"/", "url">>,
                   query |-> <<>>, frag |-> ""]

RECURSIVE FirstAnchor(_, _)
\* lines 268-282: the loop over the anchors, in document order
FirstAnchor(anchors, base) ==
    IF anchors = <<>> THEN Found(NoUrl)
    ELSE LET a == Head(anchors)
             h == Href(a, base)
         IN
         IF WrapperCandidate(a) # NoUrl THEN Found(WrapperCandidate(a))
         ELSE IF a.form \in {"abs_wrapper", "plain"} /\ UrlParseRaises(h)
                 THEN Raised
         ELSE IF a.form \in {"abs_wrapper", "plain"} /\ External(h)
                 THEN Found(h)
         ELSE IF base # NoUrl /\ base.host # "" /\ External(h)
                 THEN Found(h)
         ELSE FirstAnchor(Tail(anchors), base)

\* NewsFetcher._extract_external_from_gnews: the URL returned (NoUrl for
\* None), or the exception of a urlparse outside the try of line 271
ExtractExternal(page, base) ==
    LET rf == page.refresh
        viaRefresh == rf.form = "lower" /\ StartsWithHttp(rf.url)
    IN
    IF viaRefresh /\ UrlParseRaises(rf.url) THEN Raised
    ELSE IF viaRefresh /\ External(rf.url) THEN Found(rf.url)
    ELSE IF page.amp # NoUrl /\ UrlParseRaises(page.amp) THEN Raised
    ELSE IF page.amp # NoUrl /\ External(page.amp) THEN Found(page.amp)
    ELSE FirstAnchor(page.anchors, base)

\* NewsFetcher._resolve_original_url
ResolveOriginalUrl(link, r) ==
    IF r.exc \/ UrlParseRaises(r.final) THEN NoUrl
    ELSE IF r.final.host # "" /\ ~EndsWithGNews(r.final.host)
            THEN Canonicalize(r.final)
    ELSE LET candidate == ExtractExternal(r.page, r.final) IN
         IF ~candidate.raised /\ candidate.url # NoUrl
            THEN Canonicalize(candidate.url)
            ELSE NoUrl

\* NewsFetcher._get_article_meta: None, an exception leaving the function
\* (unique_media of line 431 is unbound when the try block failed before
\* line 414), or the metadata with its canonical_url
GetArticleMeta(page_url, pg) ==
    CASE pg.status = "fail" ->
            [kind |-> "none", canonical_url |-> NoUrl]
      [] pg.status = "parse_error" ->
            [kind |-> "raise", canonical_url |-> NoUrl]
      [] OTHER ->
            LET canonical_url == IF pg.canonical # NoUrl
                                    THEN Canonicalize(pg.canonical)
                                    ELSE NoUrl
            IN  [kind |-> "meta",
                 canonical_url |-> IF canonical_url # NoUrl
                                      THEN canonical_url ELSE page_url]

Outcome(k, l, al, at) == [kind |-> k, link |-> l, addLinks |-> al, addTitles |-> at]

\* lines 158-167: orig_link is missing or still on the aggregator
Unresolved(orig) == orig = NoUrl \/ EndsWithGNews(orig.host)

\* lines 204-207: the link of the article, given the page's metadata
FinalLink(canon, cand) ==
    IF cand # NoUrl /\ StartsWithHttp(cand) /\ ~EndsWithGNews(cand.host)
        THEN cand ELSE canon

\* lines 127-243: one iteration of the item loop on entry e, with what the
\* network answers (r for the redirect resolver, pg for the article page)
ProcessEntry(e, r, pg, seenL, seenT) ==
    IF ~e.hasTitle \/ e.link = NoUrl THEN Outcome("skip_missing", NoUrl, {}, {})
    ELSE
    LET d == OrigFromDesc(e.desc) IN
    IF d.raised THEN Outcome("raise", NoUrl, {}, {})
    ELSE IF d.url = NoUrl /\ UrlParseRaises(e.link)
        THEN Outcome("raise", NoUrl, {}, {})
    ELSE
    LET orig == IF d.url # NoUrl THEN d.url
                ELSE IF ContainsGNews(e.link.host)
                        THEN ResolveOriginalUrl(e.link, r)
                        ELSE e.link
    IN
    IF orig # NoUrl /\ UrlParseRaises(orig) THEN Outcome("raise", NoUrl, {}, {})
    ELSE IF Unresolved(orig) THEN Outcome("skip_unresolved", NoUrl, {}, {})
    ELSE
    LET canon == Canonicalize(orig) IN
    IF canon \in seenL THEN Outcome("dup_link", canon, {}, {})
    ELSE
    LET tk == TitleKey(Strip(e.title)) IN
    IF TitleSeen(tk, seenT) THEN Outcome("dup_title", canon, {canon}, {})
    ELSE
    LET m == GetArticleMeta(canon, pg) IN
    IF m.kind = "raise" THEN Outcome("raise", canon, {canon}, {tk})
    ELSE
    LET cand == IF m.kind = "meta" /\ m.canonical_url # NoUrl
                   THEN Canonicalize(m.canonical_url) ELSE NoUrl
    IN
    IF cand # NoUrl /\ UrlParseRaises(cand) THEN Outcome("raise", canon, {canon}, {tk})
    ELSE Outcome("emit", FinalLink(canon, cand), {canon}, {tk})

NeedsResolve(e) ==
    /\ e.hasTitle /\ e.link # NoUrl
    /\ ~OrigFromDesc(e.desc).raised /\ OrigFromDesc(e.desc).url = NoUrl
    /\ ~UrlParseRaises(e.link) /\ ContainsGNews(e.link.host)

\* what an iteration of the item loop is remembered by: the feed, what
\* was done, the title key and the canonical link the iteration computed
LogEntry(feed, e, o) ==
    [feed |-> feed, kind |-> o.kind,
     key  |-> IF o.kind \in {"dup_title", "emit"} \/ o.addTitles # {}
                 THEN TitleKey(Strip(e.title)) ELSE <<>>,
     canon |-> IF o.kind = "emit" THEN CHOOSE c \in o.addLinks : TRUE
               ELSE o.link]

FetchInit ==
    /\ fPc = "start"
    /\ fProfile = "mixed"
    /\ fNumFeeds \in 0..MaxFeeds
    /\ fMaxItems \in MaxItemsOf(fProfile)
    /\ fFeed = 1
    /\ fScript = [f \in 1..fNumFeeds |-> <<>>]
    /\ fAttempts = [f \in 1..fNumFeeds |-> 0]
    /\ fLeft = 0
    /\ fBudget = CycleEntriesOf(fProfile)
    /\ fCount = 0
    /\ fResults = <<>>
    /\ fLog = <<>>
    /\ fSeenLinks = {}
    /\ fSeenTitles = {}

\* fetch called on plain feed documents, with a small max_items
FetchPlainInit ==
    /\ fPc = "start"
    /\ fProfile = "plain"
    /\ fNumFeeds \in 0..MaxFeeds
    /\ fMaxItems \in MaxItemsOf(fProfile)
    /\ fFeed = 1
    /\ fScript = [f \in 1..fNumFeeds |-> <<>>]
    /\ fAttempts = [f \in 1..fNumFeeds |-> 0]
    /\ fLeft = 0
    /\ fBudget = CycleEntriesOf(fProfile)
    /\ fCount = 0
    /\ fResults = <<>>
    /\ fLog = <<>>
    /\ fSeenLinks = {}
    /\ fSeenTitles = {}

FetchIdle ==
    /\ fPc = "idle"
    /\ fProfile = "mixed"
    /\ fNumFeeds = 0
    /\ fMaxItems = 20
    /\ fFeed = 1
    /\ fScript = <<>>
    /\ fAttempts = <<>>
    /\ fLeft = 0
    /\ fBudget = 0
    /\ fCount = 0
    /\ fResults = <<>>
    /\ fLog = <<>>
    /\ fSeenLinks = {}
    /\ fSeenTitles = {}

\* lines 100-112
FetchStart ==
    /\ fPc = "start"
    /\ fPc' = IF fNumFeeds = 0 THEN "done" ELSE "feed"
    /\ UNCHANGED <<fNumFeeds, fMaxItems, fProfile, fFeed, fScript,
                   fAttempts, fLeft, fBudget, fCount, fResults, fLog,
                   fSeenLinks, fSeenTitles, notFetchVars>>

\* FetchFeed without the try/except of lines 114-119: the exception of a
\* failed GET leaves fetch
FetchFeedMutAbort ==
    /\ fPc = "feed" /\ fFeed <= fNumFeeds
    /\ \E sc \in Scripts, n \in 0..FeedEntriesOf(fProfile) :
          /\ n <= fBudget
          /\ fScript' = [fScript EXCEPT ![fFeed] = sc]
          /\ fAttempts' = [fAttempts EXCEPT ![fFeed] = @ + 1]
          /\ IF RaiseForStatus(sc[1])
                THEN /\ fPc' = "raised"
                     /\ UNCHANGED <<fFeed, fLeft, fBudget, fCount>>
                ELSE /\ fPc' = "items"
                     /\ fLeft' = n
                     /\ fBudget' = fBudget - n
                     /\ fCount' = 0
                     /\ UNCHANGED fFeed
    /\ UNCHANGED <<fNumFeeds, fMaxItems, fProfile, fResults, fLog,
                   fSeenLinks, fSeenTitles, notFetchVars>>

\* lines 113-123: one GET of the feed; an exception (also raise_for_status)
\* is logged and the loop continues with the next feed
FetchFeed ==
    /\ fPc = "feed" /\ fFeed <= fNumFeeds
    /\ \E sc \in Scripts, n \in 0..FeedEntriesOf(fProfile) :
          /\ n <= fBudget
          /\ fScript' = [fScript EXCEPT ![fFeed] = sc]
          /\ fAttempts' = [fAttempts EXCEPT ![fFeed] = @ + 1]
          /\ IF RaiseForStatus(sc[1])
                THEN /\ fFeed' = fFeed + 1
                     /\ UNCHANGED <<fPc, fLeft, fBudget, fCount>>
                ELSE /\ fPc' = "items"
                     /\ fLeft' = n
                     /\ fBudget' = fBudget - n
                     /\ fCount' = 0
                     /\ UNCHANGED fFeed
    /\ UNCHANGED <<fNumFeeds, fMaxItems, fProfile, fResults, fLog,
                   fSeenLinks, fSeenTitles, notFetchVars>>

\* lines 124-243: one iteration of the item loop
FetchItem ==
    /\ fPc = "items" /\ fLeft > 0
    /\ ~LimitReached(fCount, PerFeedLimit(fMaxItems, fNumFeeds))
    /\ \E e \in EntriesOf(fProfile), pg \in PagesOf(fProfile) :
       \E r \in (IF NeedsResolve(e) THEN Resolutions ELSE {NoResolution}) :
          LET o == ProcessEntry(e, r, pg, fSeenLinks, fSeenTitles) IN
          /\ fLog' = IF fProfile = "plain"
                         THEN Append(fLog, LogEntry(fFeed, e, o)) ELSE fLog
          /\ IF o.kind = "raise"
                THEN /\ fPc' = "raised"
                     /\ fSeenLinks' = fSeenLinks \cup o.addLinks
                     /\ fSeenTitles' = fSeenTitles \cup o.addTitles
                     /\ UNCHANGED <<fLeft, fCount, fResults>>
                ELSE /\ fSeenLinks' = fSeenLinks \cup o.addLinks
                     /\ fSeenTitles' = fSeenTitles \cup o.addTitles
                     /\ fLeft' = fLeft - 1
                     /\ IF o.kind = "emit"
                           THEN /\ fResults' = Append(fResults,
                                       [title |-> Strip(e.title),
                                        link |-> o.link, feed |-> fFeed])
                                /\ fCount' = fCount + 1
                           ELSE UNCHANGED <<fResults, fCount>>
                     /\ UNCHANGED fPc
    /\ UNCHANGED <<fNumFeeds, fMaxItems, fProfile, fFeed, fScript, fAttempts,
                   fBudget, notFetchVars>>

\* lines 124-126: the item loop ends (no entry left, or the per-feed limit)
FetchFeedEnd ==
    /\ fPc = "items"
    /\ fLeft = 0 \/ LimitReached(fCount, PerFeedLimit(fMaxItems, fNumFeeds))
    /\ fPc' = "feed"
    /\ fFeed' = fFeed + 1
    /\ fLeft' = 0
    /\ UNCHANGED <<fNumFeeds, fMaxItems, fProfile, fScript, fAttempts,
                   fBudget, fCount, fResults, fLog, fSeenLinks, fSeenTitles,
                   notFetchVars>>

\* line 244
FetchReturn ==
    /\ fPc = "feed" /\ fFeed > fNumFeeds
    /\ fPc' = "done"
    /\ UNCHANGED <<fNumFeeds, fMaxItems, fProfile, fFeed, fScript,
                   fAttempts, fLeft, fBudget, fCount, fResults, fLog,
                   fSeenLinks, fSeenTitles, notFetchVars>>

FetchNext == FetchStart \/ FetchFeed \/ FetchItem \/ FetchFeedEnd \/ FetchReturn

-----------------------------------------------------------------------------
(* bot.py: the dedup store and the polling loop of main()                   *)
(* Configuration as by default: REQUIRE_MEDIA=0, GENERATE_AI_IMAGES=0.      *)

\* links of the articles handed to the bot, with the string order that
\* sorted() uses
BotLinks == {"https://example.com/a", "https://pub.org/b"}
LinkRank(l) == IF l = "https://example.com/a" THEN 1 ELSE 2

\* the feed titles of the items, and the titles the summarizer answers
BotTitles == {TitleAI, TitleM}
BotAiTitles == {TitleAi, TitleM}

\* title_key without the lower() of line 271
BotTitleKeyMutNoLower(title) ==
    LET s == RStrip(LStrip(title))
        reduced == SelectSeq(s, LAMBDA ch : IsAlnum(ch) \/ IsSpace(ch))
    IN  SplitJoin(LStrip(reduced))

\* title_key of bot.py (lines 269-275)
BotTitleKey(title) ==
    LET s == RStrip(LStrip(LowerStr(title)))
        reduced == SelectSeq(s, LAMBDA ch : IsAlnum(ch) \/ IsSpace(ch))
    IN  SplitJoin(LStrip(reduced))

RECURSIVE SortedSeq(_)
\* sorted(list(published))
SortedSeq(S) ==
    IF S = {} THEN <<>>
    ELSE LET m == CHOOSE x \in S : \A y \in S : LinkRank(x) <= LinkRank(y)
         IN  <<m>> \o SortedSeq(S \ {m})

SeqToSet(s) == {s[i] : i \in 1..Len(s)}

(* The content of a store file: kind says what the bytes are,               *)
(*   "missing"  there is no file                                           *)
(*   "array"    the text of a JSON array whose elements are items          *)
(*   "empty"    no bytes                                                   *)
(*   "partial"  the text of a JSON array cut after the elements in items   *)
(*   "garbage"  text that is not JSON                                      *)
(*   "binary"   bytes that are not UTF-8                                   *)
(*   "object"   the text of a JSON value that is not an array              *)
FileContent(k, items) == [kind |-> k, items |-> items]

MissingFile == FileContent("missing", <<>>)

\* json.dumps of a list
JsonDumps(list) == FileContent("array", list)

\* json.loads(path.read_text(encoding="utf-8")): the exception raised if
\* any, and the value
ReadJson(file) ==
    [exc    |-> CASE file.kind = "binary" -> "UnicodeDecodeError"
                  [] file.kind \in {"empty", "partial", "garbage"}
                         -> "JSONDecodeError"
                  [] OTHER -> "none",
     isList |-> file.kind = "array",
     value  |-> file.items]

\* an except clause that names json.JSONDecodeError only
ExceptExceptionMutJsonOnly(exc) == exc = "JSONDecodeError"

\* except Exception (lines 43, 234): the exceptions the clause catches
ExceptException(exc) == exc \in {"JSONDecodeError", "UnicodeDecodeError"}

\* ensure_storage (lines 28-33): a missing file is created holding "[]"
EnsureStorage(file) == IF file.kind = "missing" THEN JsonDumps(<<>>) ELSE file

\* what a stop of the process during Path.write_text(new) can leave in a
\* file that held old: write_text opens the file for writing, which
\* truncates it, and then writes the text
WriteStops(old, new) ==
    {old, FileContent("empty", <<>>), new}
        \cup {FileContent("partial", SubSeq(new.items, 1, k)) :
                 k \in 0..Len(new.items)}

\* save_published (lines 47-49) writes the sorted list
SavePublished(published) == JsonDumps(SortedSeq(published))

\* load_published (lines 36-44): whether it raises, and what it returns
LoadPublishedOutcome(file) ==
    LET data == ReadJson(EnsureStorage(file)) IN
    IF data.exc # "none"
       THEN [raised |-> ~ExceptException(data.exc), value |-> {}]
       ELSE [raised |-> FALSE,
             value  |-> IF data.isList THEN SeqToSet(data.value) ELSE {}]

LoadPublished(file) == LoadPublishedOutcome(file).value

\* keys[-max_size:]
LastSlice(keys, maxSize) ==
    LET n == Len(keys)
        start == IF maxSize = 0 THEN 0
                 ELSE IF maxSize > n THEN 0 ELSE n - maxSize
    IN  SubSeq(keys, start + 1, n)

\* save_recent_titles (lines 238-241) writes keys[-max_size:]
SaveRecentTitles(keys, maxSize) == JsonDumps(LastSlice(keys, maxSize))

\* load_recent_titles that keeps the first element only
LoadRecentTitlesOutcomeMutFirst(file) ==
    LET data == ReadJson(EnsureStorage(file)) IN
    [raised |-> FALSE,
     value  |-> IF data.exc # "none" \/ ~data.isList \/ data.value = <<>>
                   THEN <<>> ELSE <<Head(data.value)>>]

\* load_recent_titles (lines 227-235): whether it raises, and what it
\* returns
LoadRecentTitlesOutcome(file) ==
    LET data == ReadJson(EnsureStorage(file)) IN
    IF data.exc # "none"
       THEN [raised |-> ~ExceptException(data.exc), value |-> <<>>]
       ELSE [raised |-> FALSE,
             value  |-> IF data.isList THEN data.value ELSE <<>>]

LoadRecentTitles(file) == LoadRecentTitlesOutcome(file).value

\* the store updates of lines 442-450 placed outside the try of line 440:
\* they run whether send_to_telegram returned or raised
SendReturnedMutAlways(outcome) == TRUE

\* send_to_telegram returned (line 441 went on to line 442) or raised
SendReturned(outcome) == outcome = "ok"

\* the two title checks removed (lines 387, 409)
DuplicateTitleMutNever(key, recent) == FALSE

\* lines 387 and 409: the key is not empty and is in recent_title_keys_set
DuplicateTitle(key, recent) == key # <<>> /\ key \in recent

\* the title keys of an item: of its feed title and of its final title
ItemKeys(orig, final) == [orig |-> orig, final |-> final]
NoKeys == ItemKeys(<<>>, <<>>)

BotInit ==
    /\ bPc = "cycle"
    /\ bRecentMax \in 0..MaxRecent
    /\ bMaxPosts \in 0..MaxPostsPerCycle
    /\ bPublished = {}
    /\ bRecent = <<>>
    /\ bRecentSet = {}
    /\ bFilePublished = JsonDumps(<<>>)
    /\ bFileTitles = JsonDumps(<<>>)
    /\ bCycles = 0
    /\ bLeft = 0
    /\ bCycleKeys = {}
    /\ bNewCount = 0
    /\ bEvent = "init"
    /\ bLastLink = ""
    /\ bDelivered = {}
    /\ bResent = {}
    /\ bItemKeys = NoKeys
    /\ bRecorded = <<>>
    /\ bUnsaved = <<>>
    /\ bCycleSent = 0

BotIdle ==
    /\ bPc = "idle"
    /\ bRecentMax = 0
    /\ bMaxPosts = 0
    /\ bPublished = {}
    /\ bRecent = <<>>
    /\ bRecentSet = {}
    /\ bFilePublished = JsonDumps(<<>>)
    /\ bFileTitles = JsonDumps(<<>>)
    /\ bCycles = 0
    /\ bLeft = 0
    /\ bCycleKeys = {}
    /\ bNewCount = 0
    /\ bEvent = "init"
    /\ bLastLink = ""
    /\ bDelivered = {}
    /\ bResent = {}
    /\ bItemKeys = NoKeys
    /\ bRecorded = <<>>
    /\ bUnsaved = <<>>
    /\ bCycleSent = 0

\* lines 352-365: a polling cycle starts; fetch returns its items or raises
\* (then line 473 logs the loop error and the cycle is over)
BotFetch ==
    /\ bPc = "cycle" /\ bCycles < MaxCycles
    /\ bCycles' = bCycles + 1
    /\ \E raised \in BOOLEAN, n \in 0..MaxCycleItems :
          IF raised
             THEN /\ n = 0
                  /\ bEvent' = "loop_error"
                  /\ UNCHANGED <<bPc, bLeft, bCycleKeys, bNewCount>>
             ELSE /\ bEvent' = "fetched"
                  /\ bPc' = "loop"
                  /\ bLeft' = n
                  /\ bCycleKeys' = {}
                  /\ bNewCount' = 0
    /\ bLastLink' = ""
    /\ bItemKeys' = NoKeys
    /\ bCycleSent' = 0
    /\ UNCHANGED <<bRecentMax, bMaxPosts, bPublished, bRecent, bRecentSet,
                   bFilePublished, bFileTitles, bDelivered, bResent,
                   bRecorded, bUnsaved, notBotVars>>

\* lines 367-458: one iteration of the loop over the fetched items.
\*   title, link : the item (fetch gives distinct title keys within a cycle)
\*   ai          : the title of the summarizer's answer, <<>> if none
\*   outcome     : send_to_telegram returns ("ok") or raises ("raised")
\*   fault       : the store write that raises, "none" if no one does
BotItem ==
    /\ bPc = "loop" /\ bLeft > 0
    /\ \E title \in BotTitles, link \in BotLinks, ai \in BotAiTitles \cup {<<>>},
          outcome \in {"ok", "raised"},
          fault \in {"none", "save_published", "save_recent_titles"} :
       LET orig_title_key == BotTitleKey(title)
           final_title == IF ai # <<>> THEN RStrip(LStrip(ai)) ELSE title
           ai_title_key == BotTitleKey(final_title)
           skipped == \/ link \in bPublished
                      \/ DuplicateTitle(orig_title_key, bRecentSet)
                      \/ DuplicateTitle(ai_title_key, bRecentSet)
           new == IF ai_title_key # <<>> /\ ai_title_key # orig_title_key
                     THEN <<orig_title_key, ai_title_key>>
                     ELSE <<orig_title_key>>
           keys == bRecent \o new
       IN
       /\ bItemKeys' = ItemKeys(orig_title_key, ai_title_key)
       /\ TitleKey(title) \notin bCycleKeys
       /\ bCycleKeys' = bCycleKeys \cup {TitleKey(title)}
       /\ bLeft' = bLeft - 1
       \* inputs that are not consulted are not enumerated
       /\ skipped => outcome = "ok" /\ fault = "none"
       /\ (link \in bPublished \/ DuplicateTitle(orig_title_key, bRecentSet))
             => ai = <<>>
       /\ outcome = "raised" => fault = "none"
       /\ IF skipped
             THEN \* continue (lines 380-390, 409-412)
                  /\ bEvent' = "skipped"
                  /\ bLastLink' = ""
                  /\ UNCHANGED <<bPc, bPublished, bRecent, bRecentSet,
                                 bFilePublished, bFileTitles, bNewCount,
                                 bDelivered, bResent, bRecorded, bUnsaved,
                                 bCycleSent>>
             ELSE
             /\ bLastLink' = link
             /\ bCycleSent' = IF outcome = "ok"
                                 THEN bCycleSent + 1 ELSE bCycleSent
             /\ bResent' = IF link \in bDelivered
                              THEN bResent \cup {link} ELSE bResent
             /\ bDelivered' = IF outcome = "ok"
                                 THEN bDelivered \cup {link} ELSE bDelivered
             /\ bEvent' = IF outcome = "ok" THEN "sent" ELSE "send_failed"
             /\ IF ~SendReturned(outcome)
                   THEN \* line 452
                        UNCHANGED <<bPublished, bRecent, bRecentSet,
                                    bFilePublished, bFileTitles, bNewCount,
                                    bRecorded, bUnsaved>>
                   ELSE
                   /\ bPublished' = bPublished \cup {link}
                   /\ IF fault = "save_published"
                         THEN UNCHANGED <<bFilePublished, bRecent, bRecentSet,
                                          bFileTitles, bNewCount, bRecorded,
                                          bUnsaved>>
                         ELSE
                         /\ bFilePublished' =
                                SavePublished(bPublished \cup {link})
                         /\ bRecent' = keys
                         /\ bRecentSet' = SeqToSet(keys)
                         /\ IF fault = "save_recent_titles"
                               THEN /\ bUnsaved' = bUnsaved \o new
                                    /\ UNCHANGED <<bFileTitles, bNewCount,
                                                   bRecorded>>
                               ELSE /\ bFileTitles' =
                                         SaveRecentTitles(keys, bRecentMax)
                                    /\ bNewCount' = bNewCount + 1
                                    /\ bRecorded' = bRecorded \o bUnsaved \o new
                                    /\ bUnsaved' = <<>>
             \* lines 455-456
             /\ bPc' = IF bNewCount' >= bMaxPosts THEN "break" ELSE "loop"
    /\ UNCHANGED <<bRecentMax, bMaxPosts, bCycles, notBotVars>>

\* lines 460-480: the loop is over (no item left, or break); next cycle
BotCycleEnd ==
    /\ \/ bPc = "loop" /\ bLeft = 0
       \/ bPc = "break"
    /\ bPc' = "cycle"
    /\ bLeft' = 0
    /\ bEvent' = "cycle_end"
    /\ bLastLink' = ""
    /\ bItemKeys' = NoKeys
    /\ UNCHANGED <<bRecentMax, bMaxPosts, bPublished, bRecent, bRecentSet,
                   bFilePublished, bFileTitles, bCycles, bCycleKeys,
                   bNewCount, bDelivered, bResent, bRecorded, bUnsaved,
                   bCycleSent, notBotVars>>

\* the process stops and is started again: lines 325-327 load the store
BotRestart ==
    /\ bPc \in {"cycle", "loop", "break"}
    /\ bEvent # "init" /\ bEvent # "restart"
    /\ bPc' = "cycle"
    /\ bPublished' = LoadPublished(bFilePublished)
    /\ bRecent' = LoadRecentTitles(bFileTitles)
    /\ bRecentSet' = SeqToSet(LoadRecentTitles(bFileTitles))
    /\ bFilePublished' = EnsureStorage(bFilePublished)
    /\ bFileTitles' = EnsureStorage(bFileTitles)
    /\ bLeft' = 0
    /\ bCycleKeys' = {}
    /\ bNewCount' = 0
    /\ bEvent' = "restart"
    /\ bLastLink' = ""
    /\ bItemKeys' = NoKeys
    /\ bUnsaved' = <<>>
    /\ bCycleSent' = 0
    /\ UNCHANGED <<bRecentMax, bMaxPosts, bCycles, bDelivered, bResent,
                   bRecorded, notBotVars>>

BotNext == BotFetch \/ BotItem \/ BotCycleEnd \/ BotRestart

-----------------------------------------------------------------------------
(* The title key functions of news.py and bot.py on their own *)

TitleChars == {"A", "a", "m", "!", " ", "\t"}

TitleInputs == BoundedSeqs(TitleChars, MaxTitleLen)

RECURSIVE WordsFrom(_, _)
\* the words of a title: maximal runs of letters and digits between
\* whitespace, in lower case, every other character deleted
WordsFrom(s, cur) ==
    IF s = <<>> THEN (IF cur = <<>> THEN <<>> ELSE <<cur>>)
    ELSE IF IsSpace(Head(s))
         THEN (IF cur = <<>> THEN <<>> ELSE <<cur>>) \o WordsFrom(Tail(s), <<>>)
         ELSE IF IsAlnum(Head(s))
              THEN WordsFrom(Tail(s), Append(cur, LowerCh(Head(s))))
              ELSE WordsFrom(Tail(s), cur)

Words(title) == WordsFrom(title, <<>>)

TitleInit ==
    /\ tPhase = "in"
    /\ tTitle \in TitleInputs
    /\ tKeyFetch = <<>>
    /\ tKeyBot = <<>>
    /\ tOther = <<>>
    /\ tOtherFetch = <<>>
    /\ tOtherBot = <<>>

TitleIdle ==
    /\ tPhase = "idle"
    /\ tTitle = <<>>
    /\ tKeyFetch = <<>>
    /\ tKeyBot = <<>>
    /\ tOther = <<>>
    /\ tOtherFetch = <<>>
    /\ tOtherBot = <<>>

\* both functions are applied to the title
TitleApply ==
    /\ tPhase = "in"
    /\ tPhase' = "keyed"
    /\ tKeyFetch' = TitleKey(tTitle)
    /\ tKeyBot' = BotTitleKey(tTitle)
    /\ UNCHANGED <<tTitle, tOther, tOtherFetch, tOtherBot, notTitleVars>>

\* both functions are applied to another title made of the same words
TitleOther ==
    /\ tPhase = "keyed"
    /\ \E t \in TitleInputs :
          /\ t # tTitle
          /\ Words(t) = Words(tTitle)
          /\ tOther' = t
          /\ tOtherFetch' = TitleKey(t)
          /\ tOtherBot' = BotTitleKey(t)
    /\ tPhase' = "pair"
    /\ UNCHANGED <<tTitle, tKeyFetch, tKeyBot, notTitleVars>>

TitleNext == TitleApply \/ TitleOther

-----------------------------------------------------------------------------
(* The load and save functions of the dedup store on their own *)

StoreKeys == {<<"a", "i">>, <<"m">>}

\* what data/published.json may hold when the process starts
PublishedFiles ==
    {MissingFile, FileContent("garbage", <<>>), FileContent("binary", <<>>),
     FileContent("object", <<>>), JsonDumps(<<>>),
     JsonDumps(<<"https://pub.org/b">>)}

\* what data/recent_titles.json may hold when the process starts
TitlesFiles ==
    {MissingFile, FileContent("garbage", <<>>), FileContent("object", <<>>),
     FileContent("empty", <<>>), JsonDumps(<<<<"m">>>>)}

StoreInit ==
    /\ sPhase = "start"
    /\ sFilePub \in PublishedFiles
    /\ sFileTitles \in TitlesFiles
    /\ sSet \in SUBSET BotLinks
    /\ sKeys \in BoundedSeqs(StoreKeys, MaxStoreKeys)
    /\ sMax \in 0..MaxRecent
    /\ sPub = {}
    /\ sTitles = <<>>
    /\ sPrevPub = {}
    /\ sPrevTitles = <<>>
    /\ sWritten = <<>>

StoreIdle ==
    /\ sPhase = "idle"
    /\ sFilePub = MissingFile
    /\ sFileTitles = MissingFile
    /\ sSet = {}
    /\ sKeys = <<>>
    /\ sMax = 0
    /\ sPub = {}
    /\ sTitles = <<>>
    /\ sPrevPub = {}
    /\ sPrevTitles = <<>>
    /\ sWritten = <<>>

\* load_published() and load_recent_titles(), as lines 325-326 call them
StoreLoad ==
    /\ sPhase \in {"start", "saved", "stopped"}
    /\ LET p == LoadPublishedOutcome(sFilePub)
           t == LoadRecentTitlesOutcome(sFileTitles)
       IN
       /\ sPhase' = IF p.raised \/ t.raised THEN "raised"
                     ELSE CASE sPhase = "start" -> "loaded"
                            [] sPhase = "saved" -> "reloaded"
                            [] OTHER -> "recovered"
       /\ sPub' = p.value
       /\ sTitles' = t.value
       /\ sPrevPub' = IF sPhase = "start" THEN p.value ELSE sPrevPub
       /\ sPrevTitles' = IF sPhase = "start" THEN t.value ELSE sPrevTitles
    /\ sFilePub' = EnsureStorage(sFilePub)
    /\ sFileTitles' = EnsureStorage(sFileTitles)
    /\ UNCHANGED <<sSet, sKeys, sMax, sWritten, notStoreVars>>

\* save_published(sSet) and save_recent_titles(sKeys, sMax) run to the end
StoreSave ==
    /\ sPhase = "loaded"
    /\ sPhase' = "saved"
    /\ sFilePub' = SavePublished(sSet)
    /\ sFileTitles' = SaveRecentTitles(sKeys, sMax)
    /\ sWritten' = LastSlice(sKeys, sMax)
    /\ UNCHANGED <<sSet, sKeys, sMax, sPub, sTitles, sPrevPub, sPrevTitles,
                   notStoreVars>>

\* the process stops inside the write_text of save_published, or after it
\* inside the write_text of save_recent_titles
StoreSaveStopped ==
    /\ sPhase = "loaded"
    /\ sPhase' = "stopped"
    /\ sWritten' = LastSlice(sKeys, sMax)
    /\ \/ /\ sFilePub' \in WriteStops(sFilePub, SavePublished(sSet))
          /\ UNCHANGED sFileTitles
       \/ /\ sFilePub' = SavePublished(sSet)
          /\ sFileTitles' \in
                 WriteStops(sFileTitles, SaveRecentTitles(sKeys, sMax))
    /\ UNCHANGED <<sSet, sKeys, sMax, sPub, sTitles, sPrevPub, sPrevTitles,
                   notStoreVars>>

StoreNext == StoreLoad \/ StoreSave \/ StoreSaveStopped

-----------------------------------------------------------------------------
(* NewsFetcher._extract_external_from_gnews on its own *)

Refreshes ==
    {NoRefresh, Refresh("lower", UA), Refresh("upper", UA),
     Refresh("lower", UG)}

AmpLinks == {NoUrl, UB, UG}

Anchors ==
    {Anchor("rel_wrapper", UC), Anchor("rel_wrapper", UG),
     Anchor("abs_wrapper", NoUrl), Anchor("plain", UD), Anchor("plain", UG),
     Anchor("plain", UGc), Anchor("plain", UBad), Anchor("relative", NoUrl)}

ExtractInit ==
    /\ xPhase = "in"
    /\ xPage \in {GPage(rf, amp, as) :
                     rf \in Refreshes, amp \in AmpLinks,
                     as \in BoundedSeqs(Anchors, MaxAnchors)}
    /\ xBase = UG
    /\ xOut = Found(NoUrl)

ExtractIdle ==
    /\ xPhase = "idle"
    /\ xPage = GPage(NoRefresh, NoUrl, <<>>)
    /\ xBase = NoUrl
    /\ xOut = Found(NoUrl)

ExtractApply ==
    /\ xPhase = "in"
    /\ xPhase' = "out"
    /\ xOut' = ExtractExternal(xPage, xBase)
    /\ UNCHANGED <<xPage, xBase, notExtractVars>>

ExtractNext == ExtractApply

-----------------------------------------------------------------------------
(* news.py: the media list and the primary image of one article            *)
(*                                                                         *)
(* An image or video URL is [host, name, sizes, pad]: host the netloc,     *)
(* name the file, sizes the number of WordPress "-WxH" suffixes before the *)
(* extension, pad whether whitespace follows the URL. NoImg is None or "". *)

Img(h, n, k, p) == [host |-> h, name |-> n, sizes |-> k, pad |-> p]
NoImg == Img("", "", 0, FALSE)

\* str.strip() of a URL
StripUrl(u) == [u EXCEPT !.pad = FALSE]

\* _upgrade_image_url: the "-WxH" suffix that stands right before the
\* extension at the end of the path is removed, one suffix in a call
UpgradeImageUrl(u) ==
    IF u = NoImg THEN u
    ELSE IF ~u.pad /\ u.sizes > 0 THEN [u EXCEPT !.sizes = @ - 1]
    ELSE u

\* a or b of Python on URLs
OrElse(a, b) == IF a # NoImg THEN a ELSE b

Media(t, u) == [type |-> t, url |-> u]

\* (enclosure.get("type") or "").lower()
LowerType(t) == IF t = "Image/PNG" THEN "image/png" ELSE t
StartsWithImage(t) == t \in {"image/jpeg", "image/png"}
StartsWithVideo(t) == t \in {"video/mp4"}

NoEnclosure == [type |-> "", url |-> NoImg]

\* feed_media and feed_image of an item whose first media:content or
\* media:thumbnail tag has url tag and whose first enclosure is enc
FeedMedia(tag, enc) ==
    LET u1 == UpgradeImageUrl(tag)
        tagged == tag # NoImg /\ u1 # NoImg
        media_type == LowerType(enc.type)
        u2 == UpgradeImageUrl(enc.url)
        enclosed == /\ enc.url # NoImg /\ u2 # NoImg
                    /\ StartsWithImage(media_type)
                           \/ StartsWithVideo(media_type)
    IN  [image |-> IF tagged THEN u1
                   ELSE IF enclosed /\ StartsWithImage(media_type) THEN u2
                   ELSE NoImg,
         media |-> (IF tagged THEN <<Media("photo", u1)>> ELSE <<>>)
                   \o (IF ~enclosed THEN <<>>
                       ELSE IF StartsWithImage(media_type)
                       THEN <<Media("photo", u2)>>
                       ELSE <<Media("video", u2)>>)]

\* the loop of lines 415-428 and of lines 216-230: an entry is kept when its
\* stripped url is not empty and was not seen before and its type is photo
\* or video
RECURSIVE KeepFirst(_, _, _)
KeepFirst(list, seen, out) ==
    IF list = <<>> THEN out
    ELSE LET t == Head(list).type
             u == StripUrl(Head(list).url)
         IN  IF u = NoImg \/ t = "" \/ u \in seen
                  \/ t \notin {"photo", "video"}
             THEN KeepFirst(Tail(list), seen, out)
             ELSE KeepFirst(Tail(list), seen \cup {u},
                            Append(out, Media(t, u)))

\* unique_media of _get_article_meta
UniqueMedia(collected_media) == KeepFirst(collected_media, {}, <<>>)

\* the merge without the seen_media_urls test of lines 223-224
CombinedMediaMutNoSeen(feed_media, page_media) ==
    [i \in 1..Len(feed_media \o page_media) |->
        Media((feed_media \o page_media)[i].type,
              StripUrl((feed_media \o page_media)[i].url))]

\* combined_media of fetch
CombinedMedia(feed_media, page_media) ==
    KeepFirst(feed_media \o page_media, {}, <<>>)

\* The article page: tags are the media its meta tags declare, in the order
\* of the loop of lines 346-372 (contents stripped); image_src the href of
\* its link rel=image_src; scan the media of its img, video and source tags
\* that start with http. NoPage is a page the GET could not fetch.
ArticlePage(tags, image_src, scan) ==
    [tags |-> tags, image_src |-> image_src, scan |-> scan]
NoPage == [tags |-> <<>>, image_src |-> NoImg, scan |-> <<>>, failed |-> TRUE]

\* the entry appended to collected_media for a declared medium: the url of a
\* photo is upgraded
Collected(m) ==
    IF m.type = "video" THEN m
    ELSE Media("photo", OrElse(UpgradeImageUrl(m.url), m.url))

\* image after the loop of lines 346-372: the first photo of the meta tags
RECURSIVE FirstPhoto(_)
FirstPhoto(list) ==
    IF list = <<>> THEN NoImg
    ELSE IF Head(list).type = "photo" THEN Head(list).url
    ELSE FirstPhoto(Tail(list))

NoMeta == [none |-> TRUE, image |-> NoImg, media |-> <<>>]

\* the image and media of what _get_article_meta returns for a page
PageMeta(page) ==
    IF page = NoPage THEN NoMeta
    ELSE LET fromTags == [i \in 1..Len(page.tags) |-> Collected(page.tags[i])]
             image == FirstPhoto(fromTags)
             img_up == OrElse(UpgradeImageUrl(page.image_src), page.image_src)
             linked == image = NoImg /\ page.image_src # NoImg
             fromScan == [i \in 1..Len(page.scan) |-> Collected(page.scan[i])]
         IN  [none |-> FALSE,
              image |-> IF linked THEN img_up ELSE image,
              media |-> UniqueMedia(
                  fromTags
                  \o (IF linked THEN <<Media("photo", img_up)>> ELSE <<>>)
                  \o fromScan)]

\* "news.google" in feed_host or "gstatic" in feed_host
IsProxyHost(h) == h \in {"news.google.com", "lh3.gstatic.com"}

\* the choice without the host test of lines 250-252
PreferArticleImageMutFeedFirst(feed_image, meta_image) ==
    IF feed_image # NoImg THEN OrElse(UpgradeImageUrl(feed_image), feed_image)
    ELSE OrElse(UpgradeImageUrl(meta_image), meta_image)

\* _prefer_article_image
PreferArticleImage(feed_image, meta_image) ==
    IF meta_image # NoImg /\ feed_image = NoImg
    THEN OrElse(UpgradeImageUrl(meta_image), meta_image)
    ELSE IF meta_image # NoImg /\ IsProxyHost(feed_image.host)
    THEN OrElse(UpgradeImageUrl(meta_image), meta_image)
    ELSE OrElse(OrElse(UpgradeImageUrl(feed_image), feed_image), meta_image)

\* image_url of lines 232-234
ImageUrl(feed_image, meta_image, fallback) ==
    LET image_url == PreferArticleImage(feed_image, meta_image)
    IN  IF image_url = NoImg /\ fallback # NoImg THEN fallback
        ELSE image_url

FallbackImage == Img("static.example.org", "fallback", 0, FALSE)

TagUrls ==
    {NoImg, Img("cdn.pub.com", "a", 1, FALSE),
     Img("lh3.gstatic.com", "g", 0, FALSE),
     Img("cdn.pub.com", "b", 0, TRUE)}

Enclosures ==
    {NoEnclosure,
     [type |-> "image/jpeg", url |-> Img("cdn.pub.com", "a", 0, FALSE)],
     [type |-> "Image/PNG", url |-> Img("news.google.com", "n", 0, FALSE)],
     [type |-> "video/mp4", url |-> Img("cdn.pub.com", "v", 0, FALSE)],
     [type |-> "application/pdf", url |-> Img("cdn.pub.com", "d", 0, FALSE)]}

PageTagMedia ==
    {Media("photo", Img("cdn.pub.com", "a", 2, FALSE)),
     Media("photo", Img("cdn.pub.com", "c", 0, FALSE)),
     Media("video", Img("cdn.pub.com", "v", 0, FALSE))}

PageScanMedia ==
    {Media("photo", Img("cdn.pub.com", "b", 0, TRUE)),
     Media("photo", Img("cdn.pub.com", "a", 1, FALSE)),
     Media("video", Img("cdn.pub.com", "w", 0, TRUE))}

ArticlePages ==
    {NoPage} \cup
    {ArticlePage(tags, src, scan) :
        tags \in BoundedSeqs(PageTagMedia, MaxPageMedia),
        src \in {NoImg, Img("cdn.pub.com", "c", 1, FALSE)},
        scan \in BoundedSeqs(PageScanMedia, MaxPageMedia)}

MediaInit ==
    /\ mPhase = "in"
    /\ mTag \in TagUrls
    /\ mEnclosure \in Enclosures
    /\ mPage \in {p \in ArticlePages :
                     Len(p.tags) + Len(p.scan) <= MaxPageMedia}
    /\ mFallback \in {NoImg, FallbackImage}
    /\ mFeed = FeedMedia(NoImg, NoEnclosure)
    /\ mMeta = NoMeta
    /\ mMedia = <<>>
    /\ mImage = NoImg
    /\ mAllMedia = <<>>

MediaIdle ==
    /\ mPhase = "idle"
    /\ mTag = NoImg
    /\ mEnclosure = NoEnclosure
    /\ mPage = NoPage
    /\ mFallback = NoImg
    /\ mFeed = FeedMedia(NoImg, NoEnclosure)
    /\ mMeta = NoMeta
    /\ mMedia = <<>>
    /\ mImage = NoImg
    /\ mAllMedia = <<>>

\* lines 178-242 of fetch for one item: the feed media, the page meta, the
\* merged media list and the image of the article appended to results
MediaApply ==
    /\ mPhase = "in"
    /\ mPhase' = "out"
    /\ mFeed' = FeedMedia(mTag, mEnclosure)
    /\ mMeta' = PageMeta(mPage)
    /\ mMedia' = CombinedMedia(mFeed'.media, mMeta'.media)
    /\ mImage' = ImageUrl(mFeed'.image, mMeta'.image, mFallback)
    /\ UNCHANGED <<mTag, mEnclosure, mPage, mFallback, mAllMedia,
                   notMediaVars>>

\* the dictionary fetch appends to results (lines 236-242), its image and
\* media keys
Article(image_url, media) == [image_url |-> image_url, media |-> media]

\* dict.get(key, default)
DictGet(d, key, default) == IF key \in DOMAIN d THEN d[key] ELSE default

\* all_media of main() (line 372)
AllMediaOf(item) == DictGet(item, "all_media", <<>>)

\* lines 369-373 and 440-441 of main() for an item that is not skipped: the
\* item fetch returned is read and send_to_telegram is called
MediaPost ==
    /\ mPhase = "out"
    /\ mPhase' = "posted"
    /\ mAllMedia' = AllMediaOf(Article(mImage, mMedia))
    /\ UNCHANGED <<mTag, mEnclosure, mPage, mFallback, mFeed, mMeta, mMedia,
                   mImage, notMediaVars>>

MediaNext == MediaApply \/ MediaPost

-----------------------------------------------------------------------------
(* bot.py: the rotation of the feed categories over the polling cycles     *)

\* category_order of get_next_category_feeds
CategoryOrder ==
    <<"AI_ML", "SPACE_NASA", "SCIENCE", "TECH_ENGINEERING", "AUTO_EV",
      "DEFENSE", "BIOTECH_MEDICINE", "GITHUB">>

\* last_category is None
NoCategory == ""

\* what categorize_rss_feeds may return for a non-empty list of feeds: the
\* categories that got a feed
FeedCategories == (SUBSET SeqToSet(CategoryOrder)) \ {{}}

\* list.index
IndexOf(s, x) == CHOOSE i \in 1..Len(s) : s[i] = x /\ \A j \in 1..(i - 1) : s[j] # x

\* the category get_next_category_feeds returns
GetNextCategoryFeeds(categories, last_category) ==
    LET available_categories ==
            SelectSeq(CategoryOrder, LAMBDA cat : cat \in categories)
    IN  IF categories = {} THEN "TECH_ENGINEERING"
        ELSE IF available_categories = <<>>
        THEN CHOOSE cat \in categories : TRUE
        ELSE IF last_category = NoCategory
                \/ last_category \notin SeqToSet(available_categories)
        THEN available_categories[1]
        ELSE available_categories[
                 ((IndexOf(available_categories, last_category) + 1 - 1)
                      % Len(available_categories)) + 1]

(* The content of data/last_category.json: "missing" when there is no file, *)
(* "garbage" when it is not the JSON text of an object, else the category  *)
(* it records.                                                             *)

\* load_last_category
LoadLastCategory(file) ==
    IF file \in {"missing", "garbage"} THEN NoCategory ELSE file

\* save_last_category: the file after the call; the exception of a failed
\* open or write is caught at line 265
SaveLastCategory(file, category, write) ==
    CASE write = "ok" -> category
      [] write = "open_fails" -> file
      [] write = "write_fails" -> "garbage"

RotateInit ==
    /\ rPhase = "run"
    /\ rCategories \in FeedCategories
    /\ rFile \in {"missing", "garbage"} \cup SeqToSet(CategoryOrder)
    /\ rLast = LoadLastCategory(rFile)
    /\ rProcessed = <<>>
    /\ rEnded = <<>>

RotateIdle ==
    /\ rPhase = "idle"
    /\ rCategories = {}
    /\ rFile = "missing"
    /\ rLast = NoCategory
    /\ rProcessed = <<>>
    /\ rEnded = <<>>

\* lines 351-480: one polling cycle. The category of the cycle is fetched
\* and its items are posted; ended says whether the body of the try came to
\* its end ("ok") or raised ("error"). Lines 465-466 are reached when
\* nothing raised before them, else line 474 logs the error.
RotateCycle ==
    /\ rPhase = "run" /\ Len(rProcessed) < MaxRotations
    /\ \E ended \in {"ok", "error"},
          write \in {"ok", "open_fails", "write_fails"} :
          /\ ended = "error" => write = "ok"
          /\ rProcessed' =
                 Append(rProcessed, GetNextCategoryFeeds(rCategories, rLast))
          /\ rEnded' = Append(rEnded, ended)
          /\ IF ended = "ok"
             THEN /\ rFile' = SaveLastCategory(
                                  rFile,
                                  GetNextCategoryFeeds(rCategories, rLast),
                                  write)
                  /\ rLast' = GetNextCategoryFeeds(rCategories, rLast)
             ELSE UNCHANGED <<rFile, rLast>>
    /\ UNCHANGED <<rPhase, rCategories, notRotateVars>>

\* the process ends (one-shot mode, line 477) and is started again: line 320
RotateRestart ==
    /\ rPhase = "run" /\ rProcessed # <<>>
    /\ rLast' = LoadLastCategory(rFile)
    /\ UNCHANGED <<rPhase, rCategories, rFile, rProcessed, rEnded,
                   notRotateVars>>

RotateNext == RotateCycle \/ RotateRestart

-----------------------------------------------------------------------------
(* news.py: the nested calls of _get_article_meta                          *)
(*                                                                         *)
(* The web gives, for the URL of a GET, the response requests.get returns  *)
(* after it followed the redirects: url is resp.url, page what the         *)
(* redirector page declares when resp.url is on the redirector.            *)

Response(u, page) == [status |-> "ok", url |-> u, page |-> page]
NoResponse == [status |-> "fail", url |-> NoUrl,
               page |-> GPage(NoRefresh, NoUrl, <<>>)]

\* the URLs of the publisher pages of the web
MetaUrls == {UA, UD}

MetaPages ==
    {GPage(NoRefresh, NoUrl, <<>>),
     GPage(Refresh("lower", UA), NoUrl, <<>>),
     GPage(NoRefresh, NoUrl, <<Anchor("plain", UD)>>)}

Responses ==
    {NoResponse} \cup
    {Response(u, page) : u \in MetaUrls \cup {UG}, page \in MetaPages}

MetaInit ==
    /\ aPc = "call"
    /\ aWeb \in [MetaUrls -> Responses]
    /\ aUrl \in MetaUrls
    /\ aDepth = 1
    /\ aFetches = 0
    /\ aResult = "pending"

MetaIdle ==
    /\ aPc = "idle"
    /\ aWeb = [u \in MetaUrls |-> NoResponse]
    /\ aUrl = NoUrl
    /\ aDepth = 0
    /\ aFetches = 0
    /\ aResult = "pending"

\* the body of _get_article_meta in the call with argument aUrl: the GET of
\* lines 307-317 and, for a page of the redirector that names an external
\* URL, the nested call of line 329, whose result is returned as it is
MetaCall ==
    /\ aPc = "call" /\ aDepth < RecursionLimit
    /\ aFetches' = aFetches + 1
    /\ LET resp == aWeb[aUrl]
           extra == IF resp.status = "ok" /\ EndsWithGNews(resp.url.host)
                       THEN ExtractExternal(resp.page, resp.url).url
                       ELSE NoUrl
       IN  IF resp.status = "fail"
              THEN \* line 317
                   /\ aPc' = "returned" /\ aResult' = "none"
                   /\ UNCHANGED <<aUrl, aDepth>>
           ELSE IF extra # NoUrl
              THEN \* line 329
                   /\ aUrl' = extra /\ aDepth' = aDepth + 1
                   /\ UNCHANGED <<aPc, aResult>>
              ELSE \* line 431
                   /\ aPc' = "returned" /\ aResult' = "meta"
                   /\ UNCHANGED <<aUrl, aDepth>>
    /\ UNCHANGED <<aWeb, notMetaVars>>

\* the innermost call the interpreter allows: RecursionError is raised in
\* it. Raised under requests.get it is caught at line 315 and the calls
\* return None; raised under the try of line 323 it is caught at line 429
\* and line 431 raises for the unbound unique_media, in every caller too.
MetaOverflow ==
    /\ aPc = "call" /\ aDepth = RecursionLimit
    /\ \E under \in {"get", "parse"} :
          IF under = "get"
             THEN /\ aPc' = "returned" /\ aResult' = "none"
                  /\ UNCHANGED aFetches
             ELSE /\ aPc' = "raised" /\ aResult' = "raise"
                  /\ aFetches' = aFetches + 1
    /\ UNCHANGED <<aWeb, aUrl, aDepth, notMetaVars>>

MetaNext == MetaCall \/ MetaOverflow

-----------------------------------------------------------------------------
(* Specifications *)

InitCanon ==
    MetaIdle /\ RotateIdle /\ MediaIdle /\ ExtractIdle /\ StoreIdle /\ CanonInit
        /\ FetchIdle /\ BotIdle /\ TitleIdle
SpecCanon == InitCanon /\ [][CanonNext]_vars

InitFetch ==
    MetaIdle /\ RotateIdle /\ MediaIdle /\ ExtractIdle /\ StoreIdle /\ CanonIdle
        /\ FetchInit /\ BotIdle /\ TitleIdle
SpecFetch == InitFetch /\ [][FetchNext]_vars

InitFetchPlain ==
    MetaIdle /\ RotateIdle /\ MediaIdle /\ ExtractIdle /\ StoreIdle /\ CanonIdle
        /\ FetchPlainInit /\ BotIdle /\ TitleIdle
SpecFetchPlain == InitFetchPlain /\ [][FetchNext]_vars

InitBot ==
    MetaIdle /\ RotateIdle /\ MediaIdle /\ ExtractIdle /\ StoreIdle /\ CanonIdle
        /\ FetchIdle /\ BotInit /\ TitleIdle
SpecBot == InitBot /\ [][BotNext]_vars

InitTitle ==
    MetaIdle /\ RotateIdle /\ MediaIdle /\ ExtractIdle /\ StoreIdle /\ CanonIdle
        /\ FetchIdle /\ BotIdle /\ TitleInit
SpecTitle == InitTitle /\ [][TitleNext]_vars

InitStore ==
    MetaIdle /\ RotateIdle /\ MediaIdle /\ ExtractIdle /\ CanonIdle /\ FetchIdle
        /\ BotIdle /\ TitleIdle /\ StoreInit
SpecStore == InitStore /\ [][StoreNext]_vars

InitExtract ==
    MetaIdle /\ RotateIdle /\ MediaIdle /\ CanonIdle /\ FetchIdle /\ BotIdle
        /\ TitleIdle /\ StoreIdle /\ ExtractInit
SpecExtract == InitExtract /\ [][ExtractNext]_vars

InitMedia ==
    MetaIdle /\ RotateIdle /\ CanonIdle /\ FetchIdle /\ BotIdle /\ TitleIdle
        /\ StoreIdle /\ ExtractIdle /\ MediaInit
SpecMedia == InitMedia /\ [][MediaNext]_vars

InitRotate ==
    MetaIdle /\ CanonIdle /\ FetchIdle /\ BotIdle /\ TitleIdle
        /\ StoreIdle /\ ExtractIdle /\ MediaIdle /\ RotateInit
SpecRotate == InitRotate /\ [][RotateNext]_vars

\* the interpreter goes on executing a call that has not ended
InitMeta ==
    CanonIdle /\ FetchIdle /\ BotIdle /\ TitleIdle /\ StoreIdle
        /\ ExtractIdle /\ MediaIdle /\ RotateIdle /\ MetaInit
SpecMeta == InitMeta /\ [][MetaNext]_vars /\ WF_vars(MetaNext)

-----------------------------------------------------------------------------
(* Claims about NewsFetcher.fetch *)

ResultIdx == 1..Len(fResults)

\* a host that is, or ends in, the aggregator domain, whatever its case
IsAggregatorHost(h) == Lower(h) \in {"news.google.com", "www.news.google.com"}

\* C1: no article returned by fetch has a link on the aggregator domain
\* news.google.com, whatever the letter case of the host in the feed.
C1_NoAggregatorLink ==
    \A i \in ResultIdx : ~IsAggregatorHost(fResults[i].link.host)

\* C2: in the list returned by one fetch call no two articles have the same
\* canonical link.
C2_UniqueLinks ==
    \A i, j \in ResultIdx : i < j => fResults[i].link # fResults[j].link

\* C6: a feed whose GET returns 503 first and would return 200 next is
\* fetched again within the cycle (and so contributes its items).
C6_RetryAfter503 ==
    fPc = "done" =>
        \A f \in 1..fNumFeeds : fScript[f] = <<503, 200>> => fAttempts[f] >= 2

FeedFailed(f) == fScript[f] # <<>> /\ RaiseForStatus(fScript[f][1])

\* C7: a feed whose fetch fails contributes no article, never makes fetch
\* raise, and the feeds after it are still fetched; when every feed fails
\* fetch returns the empty list.
C7_FailedFeedIsolated ==
    /\ \A i \in ResultIdx : ~FeedFailed(fResults[i].feed)
    /\ fPc = "raised" => fFeed \in 1..fNumFeeds /\ ~FeedFailed(fFeed)
                            /\ fScript[fFeed] # <<>>
    /\ fPc = "done" => \A f \in 1..fNumFeeds : fAttempts[f] = 1
    /\ (fPc = "done" /\ \A f \in 1..fNumFeeds : FeedFailed(f)) => fResults = <<>>

\* a failed feed followed by a feed that contributed an article
C7_Witness ==
    /\ fPc = "done" /\ fNumFeeds >= 2
    /\ FeedFailed(1)
    /\ \E i \in ResultIdx : fResults[i].feed = 2

\* C8: fetch never raises because of one item (a malformed link, a page
\* whose parsing fails): the cycle goes on with the later items and feeds.
C8_NeverRaises == fPc # "raised"

(* Claims about the polling loop and the dedup store *)

\* C3: a link whose delivery succeeded once is never handed to
\* send_to_telegram again, across cycles and process restarts.
C3_NeverResent == bResent = {}

StoreChanged ==
    <<bPublished, bFilePublished, bRecent, bFileTitles>>' #
        <<bPublished, bFilePublished, bRecent, bFileTitles>>

\* C4: within a process the published set, the persisted published record
\* and the recent-title-key list change only in a step whose
\* send_to_telegram returned without error; a step whose send_to_telegram
\* raised leaves them as they were.
C4_RecordOnlyAfterDelivery ==
    [][ /\ bEvent' = "send_failed" => ~StoreChanged
        /\ (StoreChanged /\ bEvent' # "restart") => bEvent' = "sent" ]_vars

\* a failed delivery of a link that is not recorded as published
C4_Witness ==
    /\ bEvent = "send_failed"
    /\ bLastLink \notin bPublished
    /\ bLastLink \notin LoadPublished(bFilePublished)

\* C5: the persisted recent-title record never holds more than the
\* configured maximum number of keys (recent_titles_max, 0 included).
C5_RecentTitlesBounded == Len(bFileTitles.items) <= bRecentMax

-----------------------------------------------------------------------------
(* Claims about _canonicalize_url *)

\* C9: _canonicalize_url is idempotent: canonicalising the result of a
\* canonicalisation gives that result again, for every input URL.
C9_Idempotent == cPhase = "twice" => cOut2 = cOut

\* C10: two URLs that differ only by a denylisted tracking parameter, the
\* case of the host, a trailing slash or an "/amp" path segment canonicalise
\* to the same URL.
C10_VariantsCollapse == cPhase = "pair" => cVarOut = cOut

-----------------------------------------------------------------------------
(* Claims about the title key *)

\* C11: the title key is a function of the words of the title: two titles
\* that are the same after lower-casing, deleting every character that is
\* neither a letter or digit nor whitespace, and collapsing whitespace get
\* the same key, and title_key of bot.py and NewsFetcher._title_key give
\* the same key for every title.
C11_TitleKeyAgrees ==
    /\ tPhase \in {"keyed", "pair"} => tKeyBot = tKeyFetch
    /\ tPhase = "pair" =>
          /\ tOtherFetch = tKeyFetch
          /\ tOtherBot = tKeyBot

C11_Witness ==
    /\ tPhase = "pair"
    /\ tTitle = <<"A", "!", "\t">>
    /\ tOther = <<" ", "a">>
    /\ tKeyFetch = <<"a">>

-----------------------------------------------------------------------------
(* Claims about the load and save functions of the dedup store *)

C13_StopLeavesOldOrNew ==
    sPhase = "recovered" =>
        /\ sPub \in {sPrevPub, sSet}
        /\ sTitles \in {sPrevTitles, sWritten}

\* C14: load_published and load_recent_titles do not raise whatever the
\* files hold: a missing file is created holding an empty array, and
\* content that is not JSON or not a JSON array is read as empty.
C14_LoadNeverRaises ==
    /\ sPhase # "raised"
    /\ sPhase = "loaded" =>
          /\ sFilePub.kind # "missing" /\ sFileTitles.kind # "missing"
          /\ sFilePub.kind # "array" => sPub = {}
          /\ sFileTitles.kind # "array" => sTitles = <<>>

C14_Witness ==
    /\ sPhase = "loaded"
    /\ sFilePub.kind = "binary"
    /\ sFileTitles.kind = "garbage"

-----------------------------------------------------------------------------
(* Claims about the limits and the title dedup of NewsFetcher.fetch *)

\* the articles of the result that came from feed f
FromFeed(f) == {i \in ResultIdx : fResults[i].feed = f}

\* C15: in one fetch(max_items) over F feeds no feed contributes more
\* than max(3, floor(max_items / F)) articles to the result, however many
\* entries it holds and however many of them were skipped.
C15_PerFeedShare ==
    \A f \in 1..fNumFeeds :
        LET share == fMaxItems \div fNumFeeds IN
        Cardinality(FromFeed(f)) <= IF share > 3 THEN share ELSE 3

\* a feed has given its share and still holds entries
C15_Witness ==
    /\ fPc = "items" /\ fLeft > 0
    /\ Cardinality(FromFeed(fFeed)) = 3
    /\ fMaxItems \div fNumFeeds <= 3

\* C16: the list fetch(max_items) returns has at most max_items articles.
C16_AtMostMaxItems == fPc = "done" => Len(fResults) <= fMaxItems

\* an iteration that got past the link dedup of lines 172-173
PassedLinkDedup(i) == fLog[i].kind \in {"dup_title", "emit"}

\* C17: no two articles of the result have the same title key, and of the
\* items with one title key the article kept is the first, in feed order
\* and then item order, that got past the link dedup.
C17_FirstTitleWins ==
    /\ \A i, j \in ResultIdx :
          i < j => TitleKey(fResults[i].title) # TitleKey(fResults[j].title)
    /\ \A i \in 1..Len(fLog) :
          /\ fLog[i].kind = "emit" =>
                \A j \in 1..(i - 1) :
                    PassedLinkDedup(j) => fLog[j].key # fLog[i].key
          /\ fLog[i].kind = "dup_title" =>
                \E j \in 1..(i - 1) :
                    fLog[j].kind = "emit" /\ fLog[j].key = fLog[i].key

\* an item was dropped for its title key, after the article that has it
C17_Witness ==
    /\ fPc = "done"
    /\ Len(fResults) >= 2
    /\ \E i \in 1..Len(fLog) : fLog[i].kind = "dup_title" /\ fLog[i].feed = 2

\* C20: every article of the result has a non-empty title and a non-empty
\* link; an entry whose title or link is missing, or empty once white
\* space is trimmed, is skipped.
C20_TitleAndLinkPresent ==
    \A i \in ResultIdx :
        fResults[i].title # <<>> /\ fResults[i].link # NoUrl

\* C27: within one fetch call every item dropped by the dedup has an
\* earlier emitted article that justifies it: one with the same canonical
\* link for an item dropped for its link, one with the same title key for an
\* item dropped for its title.
C27_DropJustified ==
    \A i \in 1..Len(fLog) :
        /\ fLog[i].kind = "dup_link" =>
               \E j \in 1..(i - 1) :
                   fLog[j].kind = "emit" /\ fLog[j].canon = fLog[i].canon
        /\ fLog[i].kind = "dup_title" =>
               \E j \in 1..(i - 1) :
                   fLog[j].kind = "emit" /\ fLog[j].key = fLog[i].key

-----------------------------------------------------------------------------
(* Claims about the redirect resolver *)

\* a URL that is present and off the aggregator domain
OffAggregator(u) == u # NoUrl /\ ~IsAggregatorHost(u.host)

RECURSIVE FirstWrapperTarget(_)
\* the target of the first wrapper anchor that exposes one off the
\* aggregator domain, NoUrl if no anchor does
FirstWrapperTarget(anchors) ==
    IF anchors = <<>> THEN NoUrl
    ELSE IF Head(anchors).form \in {"rel_wrapper", "abs_wrapper"}
            /\ OffAggregator(Head(anchors).url)
            THEN Head(anchors).url
    ELSE FirstWrapperTarget(Tail(anchors))

RECURSIVE FirstPlainExternal(_)
\* the first plain anchor off the aggregator domain, NoUrl if there is none
FirstPlainExternal(anchors) ==
    IF anchors = <<>> THEN NoUrl
    ELSE IF Head(anchors).form = "plain" /\ OffAggregator(Head(anchors).url)
            THEN Head(anchors).url
    ELSE FirstPlainExternal(Tail(anchors))

\* the URL the priority order of the redirect resolver gives for a page
ByPriority(page) ==
    IF page.refresh.form # "none" /\ OffAggregator(page.refresh.url)
       THEN page.refresh.url
    ELSE IF OffAggregator(page.amp) THEN page.amp
    ELSE IF FirstWrapperTarget(page.anchors) # NoUrl
            THEN FirstWrapperTarget(page.anchors)
    ELSE FirstPlainExternal(page.anchors)

\* C19: the redirect resolver takes the meta-refresh target, then the
\* AMP-HTML link, then the target of a wrapper anchor wherever it is in the
\* page, and the first plain external anchor only when there is none of
\* these; what it returns is never on the aggregator domain.
C19_ResolverPriority ==
    xPhase = "out" /\ ~xOut.raised =>
        /\ xOut.url = ByPriority(xPage)
        /\ xOut.url # NoUrl => ~IsAggregatorHost(xOut.url.host)

-----------------------------------------------------------------------------
(* Claims about the title dedup of the main loop *)

\* the n most recent elements of a list, as a set
MostRecent(s, n) ==
    {s[i] : i \in {j \in 1..Len(s) : j > Len(s) - n}}

-----------------------------------------------------------------------------
(* Claims about the media of an article *)

\* the media handed to the merge: feed_media, then the page's media
MergeInput == mFeed.media \o mMeta.media

\* the position at which a url is first met in a list of media
FirstAt(list, u) ==
    CHOOSE k \in 1..Len(list) :
        /\ StripUrl(list[k].url) = u
        /\ \A j \in 1..(k - 1) : StripUrl(list[j].url) # u

FromFeedMedia(u) ==
    \E k \in 1..Len(mFeed.media) : StripUrl(mFeed.media[k].url) = u

\* C21: the media list of an article holds each URL at most once and only
\* photos and videos, in the order in which the URLs were first met with the
\* media of the feed before those of the page alone, and every medium of the
\* feed or of the page that has a URL and a valid type is in it.
C21_MediaList ==
    mPhase = "out" =>
        /\ \A i, j \in 1..Len(mMedia) :
               i # j => mMedia[i].url # mMedia[j].url
        /\ \A i \in 1..Len(mMedia) : mMedia[i].type \in {"photo", "video"}
        /\ \A i \in 1..Len(mMedia) :
               \E k \in 1..Len(MergeInput) :
                   StripUrl(MergeInput[k].url) = mMedia[i].url
        /\ \A i, j \in 1..Len(mMedia) :
               i < j => FirstAt(MergeInput, mMedia[i].url)
                            < FirstAt(MergeInput, mMedia[j].url)
        /\ \A i, j \in 1..Len(mMedia) :
               FromFeedMedia(mMedia[i].url) /\ ~FromFeedMedia(mMedia[j].url)
                   => i < j
        /\ \A k \in 1..Len(MergeInput) :
               /\ StripUrl(MergeInput[k].url) # NoImg
               /\ MergeInput[k].type \in {"photo", "video"}
               => \E i \in 1..Len(mMedia) :
                      mMedia[i].url = StripUrl(MergeInput[k].url)

\* the feed declares two media, the page repeats one of them and adds one
C21_Witness ==
    /\ mPhase = "out"
    /\ Len(mFeed.media) = 2
    /\ \E k \in 1..Len(mMeta.media) : FromFeedMedia(mMeta.media[k].url)
    /\ \E k \in 1..Len(mMeta.media) : ~FromFeedMedia(mMeta.media[k].url)
    /\ Len(mMedia) < Len(MergeInput)
    /\ Len(mMedia) > Len(mFeed.media)

\* the image of the result is the image u, whatever its size variant
IsImage(r, u) == u # NoImg /\ r.host = u.host /\ r.name = u.name

\* C22: with a feed image and a page image the page image is chosen when
\* the host of the feed image is the aggregator's image proxy and the feed
\* image otherwise; with one of them that one is chosen; the fallback image
\* is used only when there is neither.
C22_PrimaryImage ==
    mPhase = "out" =>
        LET f == mFeed.image
            p == mMeta.image
        IN  /\ f # NoImg /\ p # NoImg /\ IsProxyHost(f.host)
                   => IsImage(mImage, p) /\ ~IsImage(mImage, f)
            /\ f # NoImg /\ p # NoImg /\ ~IsProxyHost(f.host)
                   => /\ IsImage(mImage, f)
                      /\ IsImage(mImage, p) => IsImage(f, p)
            /\ f # NoImg /\ p = NoImg => IsImage(mImage, f)
            /\ f = NoImg /\ p # NoImg => IsImage(mImage, p)
            /\ f = NoImg /\ p = NoImg => mImage = mFallback
            /\ f # NoImg \/ p # NoImg => mImage # FallbackImage

\* the feed image is served by the proxy and the page has an image of its own
C22_Witness ==
    /\ mPhase = "out"
    /\ mFeed.image # NoImg /\ IsProxyHost(mFeed.image.host)
    /\ mMeta.image # NoImg
    /\ IsImage(mImage, mMeta.image)
    /\ mFallback = FallbackImage

\* C23: when an article is posted, the all_media argument of
\* send_to_telegram is the media list fetch resolved for the article.
C23_MediaHandedOver == mPhase = "posted" => mAllMedia = mMedia

-----------------------------------------------------------------------------
(* Claims about the rotation of the categories *)

\* the position of a category in the fixed order
OrderIdx(c) == CHOOSE i \in 1..Len(CategoryOrder) : CategoryOrder[i] = c

\* the category d places after c in the fixed order, wrapping
After(c, d) == CategoryOrder[((OrderIdx(c) - 1 + d) % Len(CategoryOrder)) + 1]

\* the successor of c among the non-empty categories
Successor(c) ==
    After(c, CHOOSE d \in 1..Len(CategoryOrder) :
                 /\ After(c, d) \in rCategories
                 /\ \A e \in 1..(d - 1) : After(c, e) \notin rCategories)

\* C24: every polling cycle processes the successor, in the fixed order and
\* wrapping, of the category the cycle before it processed, so any n cycles
\* in a row process n different categories (n the number of non-empty
\* categories), also when a cycle ends with an error.
C24_RoundRobin ==
    /\ \A i \in 2..Len(rProcessed) :
           rProcessed[i] = Successor(rProcessed[i - 1])
    /\ \A i, j \in 1..Len(rProcessed) :
           i < j /\ j - i < Cardinality(rCategories)
               => rProcessed[i] # rProcessed[j]

-----------------------------------------------------------------------------
(* Claims about the posts of a polling cycle *)

\* C25: in every polling cycle at most max_posts_per_cycle articles are
\* delivered to the publisher, whatever the configured value (0 included),
\* also when a store write fails after a delivery.
C25_AtMostMaxPosts == bCycleSent <= bMaxPosts

\* C26: after every successful publish the in-memory set of title keys is
\* the set of the keys of the persisted recent-title record.
C26_SetIsRecord ==
    bEvent = "sent" => bRecentSet = SeqToSet(LoadRecentTitles(bFileTitles))

-----------------------------------------------------------------------------
(* Claims about _get_article_meta *)

\* C28: _get_article_meta always terminates: on every finite set of pages,
\* also when a publisher page redirects to a page of the redirector that
\* links to the publisher page again, the nested calls make a bounded number
\* of fetches and the call then returns the metadata or None.
C28_Terminates == <>(aPc = "returned")

====
